---------------------------- MODULE Spec2Model ----------------------------
(***************************************************************************)
(* State-machine model of setup_ext_pe.py: the helper routines that add    *)
(* external photoevaporation (FRIED grid) and the lost-dust tracker to a   *)
(* DustPy simulation object.                                               *)
(*                                                                         *)
(* The simulation object `sim` is a tree of groups and fields.  Its state  *)
(* is held in the variables below.  Arrays over the radial grid are        *)
(* functions over Cells, dust arrays are functions Cells -> Species -> Int.*)
(* Surface densities, areas and time steps are integers.                   *)
(*                                                                         *)
(* Every helper is called at most once on a simulation, as in the          *)
(* documented call sequence (initialize, setup, run).  An exception that   *)
(* leaves a helper is not caught by anything in this module: it ends the   *)
(* script, so no operation is enabled once err is set.                     *)
(***************************************************************************)
EXTENDS Integers, Sequences, FiniteSets, TLC

\* ------------------------------------------------------------ bounds
\* number of radial grid cells
Nr == 2
\* number of dust species (mass bins)
Nm == 2
\* largest time step the integrator hands to an instruction
MaxDt == 2
\* number of integration steps of sim.run() that are explored
MaxSteps == 2
\* number of direct calls of M_lostdust that are explored
MaxCalls == 2

Cells == 1..Nr
Species == 1..Nm
DtVals == 1..MaxDt

\* ------------------------------------------------------------ arrays
RECURSIVE SumSeq(_)
\* numpy .sum() of a one-dimensional array
SumSeq(s) == IF Len(s) = 0 THEN 0 ELSE s[Len(s)] + SumSeq(SubSeq(s, 1, Len(s) - 1))

\* np.zeros_like(sim.dust.Sigma): shape (Nr, Nm)
ZerosLikeDust == [i \in Cells |-> [j \in Species |-> 0]]
\* np.zeros_like(sim.grid.r), np.zeros_like(sim.gas.Sigma): shape (Nr,)
ZerosLikeGrid == [i \in Cells |-> 0]

\* sim.grid.r: the radial grid, ascending; r[-1] is GridR[Nr]
GridR == [i \in Cells |-> 10 * i]
\* sim.grid.A: the area of the annulus of each cell, growing outwards
GridA == [i \in Cells |-> 2 * i + 1]

\* Values the host's dust updater can give dust.S.ext in one update: no
\* external source, a loss (-1) in the last species of the outermost cell or
\* in the first species of the innermost cell, or a gain (+1) in the latter.
SourcePoint(p, v) ==
    [i \in Cells |-> [j \in Species |-> IF <<i, j>> = p THEN v ELSE 0]]
Sources == {ZerosLikeDust, SourcePoint(<<Nr, Nm>>, -1), SourcePoint(<<1, 1>>, -1),
            SourcePoint(<<1, 1>>, 1)}

\* ------------------------------------------------------------ state
VARIABLES
    groups,          \* names of the groups that are attributes of sim
    starM,           \* sim.star.M in solar masses
    UV_Flux,         \* sim.EPE.FRIED.UV_Flux (0: the field does not exist)
    Table,           \* sim.EPE.FRIED.Table: radii, Sigma, MassLoss
    Interpolator,    \* sim.EPE.FRIED._Interpolator
    rTrunc,          \* sim.EPE.FRIED.rTrunc (0: the field does not exist)
    rLim_in,         \* sim.EPE.FRIED.rLim_in (0: the field does not exist)
    MassLoss,        \* sim.EPE.FRIED.MassLoss (<<>>: the field does not exist)
    groupUpdater,    \* the update list of sim, sim.EPE.FRIED and sim.lostdust
    fieldUpdater,    \* the updater of each field this module gives one
    gasSEPE,         \* sim.gas.S.EPE (<<>>: the field does not exist)
    dustSEPE,        \* sim.dust.S.EPE (<<>>: the field does not exist)
    gasSigmaFloor,   \* sim.gas.SigmaFloor, as the exponent of ten
    dustSext,        \* sim.dust.S.ext, the host's external dust source term
    lostdustSigma,   \* sim.lostdust.Sigma (<<>>: the field does not exist)
    lostdustM,       \* sim.lostdust.M
    differentiator,  \* sim.lostdust.Sigma.differentiator
    instructions,    \* sim.integrator.instructions
    cycleLog,        \* the updaters the latest sim.update() invoked, in order
    err,             \* the exception that ended the script, or "none"
    called,          \* the helpers called so far, with using_FRIED's value
    hist             \* history: what the properties below compare against

vars == <<groups, starM, UV_Flux, Table, Interpolator, rTrunc, rLim_in, MassLoss,
          groupUpdater, fieldUpdater, gasSEPE, dustSEPE, gasSigmaFloor, dustSext,
          lostdustSigma, lostdustM, differentiator, instructions, cycleLog, err,
          called, hist>>

friedVars == <<Table, Interpolator, rTrunc, rLim_in, MassLoss, gasSEPE, dustSEPE,
               gasSigmaFloor>>
lostVars == <<lostdustSigma, lostdustM, differentiator, instructions>>


\* ------------------------------------------------------------ the host
\* The update list a DustPy simulation carries after sim.initialize().
DefaultUpdater == <<"star", "grid", "gas", "dust">>
\* A host that registered a group of its own has put it in the update list.
HostUpdaters == {DefaultUpdater, DefaultUpdater \o <<"extra">>}
\* The instructions a DustPy simulation carries after sim.initialize().
HostInstructions ==
    << [scheme |-> "impl_1_direct", field |-> "dust.Sigma"],
       [scheme |-> "impl_1_direct", field |-> "gas.Sigma"] >>
\* Stellar masses [M_sun], UV fluxes [G_0] and floor exponents given as input.
MstarVals == {1}
UVFluxes == {1000, 3000}
SigmaFloorExps == {-30}

Range(s) == {s[k] : k \in 1..Len(s)}

\* A group's update list names attributes of that group: the first position
\* of `list` that names none of `members` (Len(list) + 1 when all resolve).
FirstMissing(list, members) ==
    CHOOSE k \in 1..(Len(list) + 1) :
        /\ \A m \in 1..(k - 1) : list[m] \in members
        /\ k = Len(list) + 1 \/ list[k] \notin members

RECURSIVE FieldLog(_, _)
\* Updating a group from a list of field names calls each field's updater.
FieldLog(list, fU) ==
    IF Len(list) = 0 THEN <<>>
    ELSE (IF fU[Head(list)] # "none" THEN <<fU[Head(list)]>> ELSE <<>>)
         \o FieldLog(Tail(list), fU)

\* What updating the top-level group `name` invokes: the lost-dust group
\* walks its own update list, a host group runs the host's updater.
GroupLog(name, gU, fU) ==
    IF name = "lostdust" THEN FieldLog(gU["lostdust"], fU) ELSE <<name>>

RECURSIVE ListLog(_, _, _)
ListLog(list, gU, fU) ==
    IF Len(list) = 0 THEN <<>>
    ELSE GroupLog(Head(list), gU, fU) \o ListLog(Tail(list), gU, fU)

\* sim.update(): walks sim.updater in order and stops with an error at the
\* first name that is no attribute of sim.
Cycle(list, members, gU, fU) ==
    LET k == FirstMissing(list, members)
        done == SubSeq(list, 1, k - 1)
    IN  [ran |-> Range(done),
         log |-> ListLog(done, gU, fU),
         failed |-> k <= Len(list)]

\* ------------------------------------------------------------ FRIED set-up
\* get_MassLoss_ResampleGrid: the resampled table and its interpolator for a
\* stellar mass and a UV flux.
get_MassLoss_ResampleGrid(Mstar_target, UV_target) ==
    [grid_MassLoss |-> <<"grid_MassLoss", Mstar_target, UV_target>>,
     grid_MassLoss_Interpolator |-> <<"Interpolator", Mstar_target, UV_target>>]

\* The parameter space of the resampled grid.
grid_radii == <<"5", "linspace(10,1000,106)">>
grid_Sigma == <<"1e-8..1e-4", "logspace(-3,3,100)", "5e3", "1e4">>
grid_Sigma1AU == <<"grid_Sigma*grid_radii">>

NoTable == [radii |-> <<>>, Sigma |-> <<>>, MassLoss |-> <<>>]

\* A Table whose Sigma field holds the rescaled axis grid_Sigma1AU.
NewTable_Sigma1AU(grid_MassLoss) ==
    [radii |-> grid_radii, Sigma |-> grid_Sigma1AU, MassLoss |-> grid_MassLoss]

\* sim.EPE.FRIED.Table and its three fields
NewTable(grid_MassLoss) ==
    [radii |-> grid_radii, Sigma |-> grid_Sigma, MassLoss |-> grid_MassLoss]

\* The updaters given to the derived fields, and the group's update list.
FRIEDFieldUpdaters ==
    [rLim_in |-> "LimitInRadius", rTrunc |-> "TruncationRadius",
     MassLoss |-> "MassLoss_FRIED"]
FRIEDUpdater == <<"rLim_in", "rTrunc", "MassLoss">>

Init ==
    /\ groups = {"star", "grid", "gas", "dust", "extra"}
    /\ starM \in MstarVals
    /\ UV_Flux = 0
    /\ Table = NoTable
    /\ Interpolator = <<>>
    /\ rTrunc = 0
    /\ rLim_in = 0
    /\ MassLoss = <<>>
    /\ groupUpdater \in {[g \in {"sim", "EPE.FRIED", "lostdust"} |->
                            IF g = "sim" THEN u ELSE <<>>] : u \in HostUpdaters}
    /\ fieldUpdater = [f \in {"rLim_in", "rTrunc", "MassLoss", "M"} |-> "none"]
    /\ gasSEPE = <<>>
    /\ dustSEPE = <<>>
    /\ gasSigmaFloor = -100
    /\ dustSext = ZerosLikeDust
    /\ lostdustSigma = <<>>
    /\ lostdustM = 0
    /\ differentiator = "none"
    /\ instructions = HostInstructions
    /\ cycleLog = <<>>
    /\ err = "none"
    /\ called = [param |-> FALSE, fried |-> FALSE, lostdust |-> FALSE,
                 using_FRIED |-> FALSE]
    /\ hist = [preUpdater |-> <<>>, preInstructions |-> <<>>,
               acc |-> ZerosLikeDust, steps |-> 0, positive |-> FALSE,
               decreased |-> FALSE, resampleCalls |-> 0, calls |-> <<>>,
               cycleAfterFried |-> FALSE, cycleAfterLostdust |-> FALSE,
               tableAtSetup |-> NoTable, interpAtSetup |-> <<>>,
               outcome |-> "not called", tracked |-> 0]

\* param_ext_pe_FRIED(sim, UV_Flux): adds sim.EPE, sim.EPE.FRIED and the
\* constant field UV_Flux.
param_ext_pe_FRIED(uv) ==
    /\ err = "none"
    /\ ~called.param
    /\ groups' = groups \cup {"EPE"}
    /\ UV_Flux' = uv
    /\ called' = [called EXCEPT !.param = TRUE]
    /\ UNCHANGED <<starM, friedVars, lostVars, groupUpdater, fieldUpdater,
                   dustSext, cycleLog, err, hist>>

\* setup_ext_pe_FRIED(sim, SigmaFloor).  Its first statement reads
\* sim.EPE.FRIED.UV_Flux: without sim.EPE that is an AttributeError, raised
\* before anything is resampled or registered.
setup_ext_pe_FRIED(SigmaFloor) ==
    /\ err = "none"
    /\ ~called.fried
    /\ called' = [called EXCEPT !.fried = TRUE]
    /\ IF "EPE" \notin groups
       THEN /\ err' = "AttributeError"
            /\ UNCHANGED <<friedVars, groupUpdater, fieldUpdater, hist>>
       ELSE LET g == get_MassLoss_ResampleGrid(starM, UV_Flux) IN
            /\ Table' = NewTable(g.grid_MassLoss)
            /\ Interpolator' = g.grid_MassLoss_Interpolator
            /\ rTrunc' = GridR[Nr]
            /\ rLim_in' = GridR[Nr]
            /\ MassLoss' = ZerosLikeGrid
            /\ fieldUpdater' = [f \in DOMAIN fieldUpdater |->
                                  IF f \in DOMAIN FRIEDFieldUpdaters
                                  THEN FRIEDFieldUpdaters[f] ELSE fieldUpdater[f]]
            /\ groupUpdater' = [groupUpdater EXCEPT !["EPE.FRIED"] = FRIEDUpdater]
            /\ gasSEPE' = ZerosLikeGrid
            /\ dustSEPE' = ZerosLikeDust
            /\ gasSigmaFloor' = SigmaFloor
            /\ hist' = [hist EXCEPT !.resampleCalls = @ + 1,
                                    !.tableAtSetup = Table',
                                    !.interpAtSetup = Interpolator']
            /\ err' = "none"
    /\ UNCHANGED <<groups, starM, UV_Flux, lostVars, dustSext, cycleLog>>


\* ------------------------------------------------------------ lost dust
Neg(m) == [i \in Cells |-> [j \in Species |-> 0 - m[i][j]]]

\* dSigma_lostdust without the sign: the source term itself
dSigma_lostdust_unsigned(dust_S_ext) == dust_S_ext

\* dSigma_lostdust(sim, x, Y): the negative of sim.dust.S.ext
dSigma_lostdust(dust_S_ext) == Neg(dust_S_ext)

\* M_lostdust without the sum over the species axis: the first species only
M_lostdust_firstSpecies(A, Sigma) ==
    SumSeq([i \in Cells |-> A[i] * Sigma[i][1]])

\* M_lostdust(sim): (sim.grid.A * sim.lostdust.Sigma.sum(-1)).sum()
M_lostdust(A, Sigma) ==
    SumSeq([i \in Cells |-> A[i] * SumSeq(Sigma[i])])

\* schemes.expl_1_euler: Y + dt * dY/dt, elementwise
expl_1_euler(Y, dt, dY) ==
    [i \in Cells |-> [j \in Species |-> Y[i][j] + dt * dY[i][j]]]

\* A setup_lostdust that appends "lostdust" to the list sim.updater holds.
LostdustSimUpdater_appending(using_FRIED) ==
    Append(groupUpdater["sim"], "lostdust")

\* The list setup_lostdust assigns to sim.updater.
LostdustSimUpdater(using_FRIED) ==
    IF using_FRIED
    THEN <<"star", "grid", "FRIED", "gas", "dust", "lostdust">>
    ELSE <<"star", "grid", "gas", "dust", "lostdust">>

\* A setup_lostdust that picks the differentiator by the flag.
LostdustDifferentiator_byFlag(using_FRIED) ==
    IF using_FRIED THEN "dSigma_lostdust_FRIED" ELSE "dSigma_lostdust"

\* The differentiator setup_lostdust gives sim.lostdust.Sigma.
LostdustDifferentiator(using_FRIED) == "dSigma_lostdust"

\* The value the differentiator registered under `name` returns.
DifferentiatorValue(name, dust_S_ext) ==
    IF name = "dSigma_lostdust" THEN dSigma_lostdust(dust_S_ext) ELSE ZerosLikeDust

\* The instruction setup_lostdust builds.
inst_lostdust == [scheme |-> "expl_1_euler", field |-> "lostdust.Sigma"]

\* How the framework treats an update list with a name that is no attribute
\* of the group: it refuses the assignment, or it takes the list and fails
\* when the update reaches the name.
Policies(list, members) ==
    IF Range(list) \subseteq members THEN {"accept"} ELSE {"reject", "defer"}

\* setup_lostdust(sim, using_FRIED), sim.update() at its end included.
\* `src` is what the host's dust updater gives dust.S.ext in that update.
setup_lostdust(using_FRIED, src) ==
    /\ err = "none"
    /\ ~called.lostdust
    /\ called' = [called EXCEPT !.lostdust = TRUE, !.using_FRIED = using_FRIED]
    /\ groups' = groups \cup {"lostdust"}
    /\ lostdustSigma' = ZerosLikeDust
    /\ LET list == LostdustSimUpdater(using_FRIED) IN
       \E policy \in Policies(list, groups') :
          IF policy = "reject"
          THEN /\ err' = "RuntimeError"
               /\ lostdustM' = 0
               /\ hist' = [hist EXCEPT !.preUpdater = groupUpdater["sim"],
                                       !.preInstructions = instructions,
                                       !.outcome = "RuntimeError"]
               /\ UNCHANGED <<groupUpdater, fieldUpdater, differentiator,
                              instructions, cycleLog, dustSext>>
          ELSE /\ groupUpdater' = [groupUpdater EXCEPT !["sim"] = list,
                                                      !["lostdust"] = <<"M">>]
               /\ differentiator' = LostdustDifferentiator(using_FRIED)
               /\ fieldUpdater' = [fieldUpdater EXCEPT !["M"] = "M_lostdust"]
               /\ instructions' = Append(instructions, inst_lostdust)
               /\ LET c == Cycle(list, groups', groupUpdater', fieldUpdater') IN
                  /\ cycleLog' = c.log
                  /\ err' = IF c.failed THEN "KeyError" ELSE "none"
                  /\ dustSext' = IF "dust" \in c.ran THEN src ELSE dustSext
                  /\ lostdustM' = IF "lostdust" \in c.ran
                                  THEN M_lostdust(GridA, lostdustSigma') ELSE 0
                  /\ hist' = [hist EXCEPT
                                !.preUpdater = groupUpdater["sim"],
                                !.preInstructions = instructions,
                                !.cycleAfterFried = @ \/ Table # NoTable,
                                !.cycleAfterLostdust = TRUE,
                                !.outcome = IF c.failed THEN "KeyError"
                                            ELSE "returned"]
    /\ UNCHANGED <<starM, UV_Flux, friedVars>>

\* One iteration of sim.run(): the integrator executes its instructions with
\* the step dt, then the simulation is updated.  The host's own instructions
\* act on gas and dust; the lost-dust instruction advances lostdust.Sigma.
Step(dt, src) ==
    /\ err = "none"
    /\ hist.steps < MaxSteps
    /\ LET tracked == inst_lostdust \in Range(instructions)
           dY == DifferentiatorValue(differentiator, dustSext)
           c == Cycle(groupUpdater["sim"], groups, groupUpdater, fieldUpdater)
       IN
       /\ lostdustSigma' = IF tracked THEN expl_1_euler(lostdustSigma, dt, dY)
                           ELSE lostdustSigma
       /\ cycleLog' = c.log
       /\ err' = IF c.failed THEN "KeyError" ELSE "none"
       /\ dustSext' = IF "dust" \in c.ran THEN src ELSE dustSext
       /\ lostdustM' = IF "M_lostdust" \in Range(c.log)
                       THEN M_lostdust(GridA, lostdustSigma') ELSE lostdustM
       /\ hist' = [hist EXCEPT
            !.steps = @ + 1,
            !.tracked = IF tracked THEN @ + 1 ELSE @,
            !.acc = IF tracked
                    THEN [i \in Cells |-> [j \in Species |->
                            @[i][j] - dt * dustSext[i][j]]]
                    ELSE @,
            !.positive = @ \/ (tracked /\ \E i \in Cells, j \in Species :
                                              dustSext[i][j] > 0),
            !.decreased = @ \/ (tracked /\ \E i \in Cells, j \in Species :
                                   lostdustSigma'[i][j] < lostdustSigma[i][j]),
            !.cycleAfterFried = @ \/ Table # NoTable,
            !.cycleAfterLostdust = @ \/ called.lostdust]
    /\ UNCHANGED <<groups, starM, UV_Flux, friedVars, groupUpdater, fieldUpdater,
                   differentiator, instructions, called>>

\* A direct call M_lostdust(sim) by the host; hist.calls keeps what it
\* returned and the lostdust.Sigma it was called on.
CallM_lostdust ==
    /\ err = "none"
    /\ Len(hist.calls) < MaxCalls
    /\ IF "lostdust" \notin groups
       THEN /\ err' = "AttributeError"
            /\ hist' = hist
       ELSE /\ hist' = [hist EXCEPT !.calls =
                          Append(@, [val |-> M_lostdust(GridA, lostdustSigma),
                                     Sigma |-> lostdustSigma])]
            /\ err' = "none"
    /\ UNCHANGED <<groups, starM, UV_Flux, friedVars, lostVars, groupUpdater,
                   fieldUpdater, dustSext, cycleLog, called>>

Next ==
    \/ \E uv \in UVFluxes : param_ext_pe_FRIED(uv)
    \/ \E sf \in SigmaFloorExps : setup_ext_pe_FRIED(sf)
    \/ \E b \in BOOLEAN, src \in Sources : setup_lostdust(b, src)
    \/ \E dt \in DtVals, src \in Sources : Step(dt, src)
    \/ CallM_lostdust

Spec == Init /\ [][Next]_vars


\* ------------------------------------------------------------ properties
\* setup_ext_pe_FRIED has run to its end
friedDone == called.fried /\ Table # NoTable

RECURSIVE SumPairs(_, _, _)
\* The sum of A[i] * Sigma[i][j] over a set P of pairs <<i, j>>.
SumPairs(P, A, Sigma) ==
    IF P = {} THEN 0
    ELSE LET p == CHOOSE q \in P : TRUE
         IN  A[p[1]] * Sigma[p[1]][p[2]] + SumPairs(P \ {p}, A, Sigma)

\* C1: once both set-ups have registered their fields, the value the
\* differentiator of lostdust.Sigma returns is the elementwise negative of
\* dust.S.EPE: their sum is zero in every cell and species.
C1_Claim ==
    (friedDone /\ differentiator # "none") =>
        \A i \in Cells, j \in Species :
            dustSEPE[i][j] + DifferentiatorValue(differentiator, dustSext)[i][j] = 0

\* The updaters of the documented order, in that order.
OrderedUpdaters ==
    <<"LimitInRadius", "TruncationRadius", "MassLoss_FRIED", "gas", "dust",
      "M_lostdust">>
InOrderedUpdaters(x) == x \in Range(OrderedUpdaters)

\* C2: after param_ext_pe_FRIED, setup_ext_pe_FRIED and
\* setup_lostdust(using_FRIED=True) the update cycle runs without error and
\* invokes rLim_in, rTrunc, MassLoss, gas, dust, lostdust.M in that order,
\* none skipped.
C2_Claim ==
    (called.param /\ friedDone /\ called.lostdust /\ called.using_FRIED) =>
        /\ err = "none"
        /\ SelectSeq(cycleLog, InOrderedUpdaters) = OrderedUpdaters

\* C3: on a simulation that was only initialized, setup_ext_pe_FRIED
\* completes without error and leaves Table, rTrunc, rLim_in, MassLoss,
\* gas.S.EPE and dust.S.EPE registered.
C3_Claim ==
    (called.fried /\ ~called.param) =>
        /\ err = "none"
        /\ Table # NoTable /\ rTrunc # 0 /\ rLim_in # 0 /\ MassLoss # <<>>
        /\ gasSEPE # <<>> /\ dustSEPE # <<>>

\* C4: every call of M_lostdust returns the sum over all cells and species
\* of grid.A[cell] * lostdust.Sigma[cell][species], and two calls on the same
\* lostdust.Sigma return the same value.
C4_MassIsAreaWeightedSum ==
    /\ \A k \in 1..Len(hist.calls) :
          hist.calls[k].val = SumPairs(Cells \X Species, GridA, hist.calls[k].Sigma)
    /\ \A k, l \in 1..Len(hist.calls) :
          hist.calls[k].Sigma = hist.calls[l].Sigma =>
              hist.calls[k].val = hist.calls[l].val

\* M_lostdust was called twice on the same lost-dust surface density, which
\* holds dust in the last species of the outermost cell.
C4_Witness ==
    /\ Len(hist.calls) >= 2
    /\ hist.calls[1].Sigma = hist.calls[2].Sigma
    /\ hist.calls[1].Sigma[Nr][Nm] > 0
    /\ hist.calls[1].val > 0

\* C5: once setup_ext_pe_FRIED has run, every update of the simulation
\* invokes the updaters of rLim_in, rTrunc and MassLoss.
C5_Claim ==
    (friedDone /\ hist.cycleAfterFried) =>
        {"LimitInRadius", "TruncationRadius", "MassLoss_FRIED"} \subseteq Range(cycleLog)


C7_TableImmutable ==
    /\ ~friedDone => Table = NoTable /\ Interpolator = <<>> /\ hist.resampleCalls = 0
    /\ friedDone =>
          /\ Table = [radii |-> grid_radii, Sigma |-> grid_Sigma,
                      MassLoss |-> <<"grid_MassLoss", starM, UV_Flux>>]
          /\ Table = hist.tableAtSetup
          /\ Interpolator = <<"Interpolator", starM, UV_Flux>>
          /\ Interpolator = hist.interpAtSetup
          /\ hist.resampleCalls = 1

\* Two integration steps, each with its update, ran after setup_ext_pe_FRIED
\* and the lost-dust tracker moved.
C7_Witness ==
    /\ friedDone /\ hist.cycleAfterFried /\ hist.tracked >= 2
    /\ lostdustSigma # ZerosLikeDust

\* C8: setup_lostdust appends exactly one instruction, the explicit Euler
\* scheme on lostdust.Sigma, at the end of integrator.instructions and leaves
\* the instructions already there as they were.
C8_Claim ==
    called.lostdust =>
        instructions = Append(hist.preInstructions, inst_lostdust)

\* C9: lostdust.Sigma starts at zero and is the sum over the Euler steps of
\* dt times the negated dust source term; it never decreases while the
\* source term was never positive; and lostdust.M is the area-weighted sum
\* of lostdust.Sigma in every state after setup_lostdust (zero before the
\* first step).
C9_LostDustAccumulates ==
    /\ called.lostdust => lostdustSigma = hist.acc
    /\ (called.lostdust /\ hist.tracked = 0) => lostdustSigma = ZerosLikeDust
    /\ ~hist.positive => ~hist.decreased
    /\ called.lostdust =>
          /\ lostdustM = SumPairs(Cells \X Species, GridA, lostdustSigma)
          /\ hist.tracked = 0 => lostdustM = 0

\* Two Euler steps with a dust loss and no gain: lost dust has built up.
C9_Witness ==
    /\ hist.outcome = "returned" /\ hist.tracked >= 2 /\ ~hist.positive
    /\ lostdustSigma[Nr][Nm] >= 2
    /\ lostdustM > 0

InPreUpdater(x) == x \in Range(hist.preUpdater)

=============================================================================
